---- MODULE Spec2Model ----
(***************************************************************************)
(* The hybrid phishing-URL decision pipeline of backend/app.py and         *)
(* backend/feature_extraction.py.                                          *)
(*                                                                         *)
(* A Python str is a sequence of one-character strings, so that length,    *)
(* membership, counting, slicing and splitting are computed, not assumed.  *)
(* A probability is an integer number of 1/100000 (0.58 is 58000); the     *)
(* value reported in a response, round(proba, 4), is a number of 1/10000.  *)
(***************************************************************************)
EXTENDS Integers, Sequences, FiniteSets, TLC

\* ------------------------------------------------------------------------
\* bound of the model: a request URL is a base URL followed by 0..MaxPad
\* further characters "a"
MaxPad == 2

\* ------------------------------------------------------------------------
\* Python str operations

Min(S) == CHOOSE x \in S : \A y \in S : x <= y

ascii_uppercase ==
    <<"A","B","C","D","E","F","G","H","I","J","K","L","M",
      "N","O","P","Q","R","S","T","U","V","W","X","Y","Z">>

ascii_lowercase ==
    <<"a","b","c","d","e","f","g","h","i","j","k","l","m",
      "n","o","p","q","r","s","t","u","v","w","x","y","z">>

digits == {"0","1","2","3","4","5","6","7","8","9"}

Range(s) == {s[i] : i \in 1..Len(s)}

\* c.isdigit() for the ASCII characters of the model
isdigit(c) == c \in digits

\* c.isascii() and c.isalpha()
isalpha(c) == c \in Range(ascii_uppercase) \cup Range(ascii_lowercase)

\* str.lower() of one character
lower_char(c) ==
    IF c \in Range(ascii_uppercase)
    THEN ascii_lowercase[CHOOSE i \in 1..Len(ascii_uppercase) : ascii_uppercase[i] = c]
    ELSE c

\* s.lower()
lower(s) == [i \in 1..Len(s) |-> lower_char(s[i])]

\* s[i:] with i a 1-based position
slice_from(s, i) == SubSeq(s, i, Len(s))

\* s.find(c, start) for a single character c, 1-based; 0 when there is none
find_from(s, c, start) ==
    LET hits == {i \in start..Len(s) : s[i] = c}
    IN  IF hits = {} THEN 0 ELSE Min(hits)

find(s, c) == find_from(s, c, 1)

\* c in s, for a single character c
has_char(s, c) == \E i \in 1..Len(s) : s[i] = c

\* s.count(c), for a single character c
count_char(s, c) == Cardinality({i \in 1..Len(s) : s[i] = c})

\* s[i : i+len(w)] == w, with i a 1-based position
match_at(s, i, w) ==
    /\ i + Len(w) - 1 <= Len(s)
    /\ \A k \in 1..Len(w) : s[i + k - 1] = w[k]

\* w in s (substring test; the empty string is in every string)
contains(s, w) == \E i \in 1..(Len(s) - Len(w) + 1) : match_at(s, i, w)

\* s.count(w): occurrences of the non-empty w, left to right, not overlapping
RECURSIVE count_from(_, _, _)
count_from(s, w, i) ==
    IF i + Len(w) - 1 > Len(s) THEN 0
    ELSE IF match_at(s, i, w) THEN 1 + count_from(s, w, i + Len(w))
    ELSE count_from(s, w, i + 1)

count(s, w) == count_from(s, w, 1)

\* re.split('[' + seps + ']', s), and s.split(sep) for seps = {sep}
RECURSIVE split_any(_, _)
split_any(s, seps) ==
    LET hits == {i \in 1..Len(s) : s[i] \in seps}
    IN  IF hits = {} THEN <<s>>
        ELSE <<SubSeq(s, 1, Min(hits) - 1)>> \o split_any(slice_from(s, Min(hits) + 1), seps)

split(s, sep) == split_any(s, {sep})

\* sum of a sequence of numbers
RECURSIVE sum(_)
sum(ns) == IF ns = <<>> THEN 0 ELSE Head(ns) + sum(Tail(ns))

\* ------------------------------------------------------------------------
\* urllib.parse.urlparse, as CPython 3.11 computes it on ASCII text without
\* control characters.  The result carries raised = TRUE where urlparse raises
\* ValueError.

scheme_chars == Range(ascii_uppercase) \cup Range(ascii_lowercase) \cup digits \cup {"+", "-", "."}

\* urlsplit works on a record of its local variables, one step after another.
urlsplit_start(u) ==
    [url |-> u, scheme |-> <<>>, netloc |-> <<>>, query |-> <<>>, fragment |-> <<>>]

\* "i = url.find(':') ... scheme, url = url[:i].lower(), url[i+1:]"
split_scheme(v) ==
    LET i == find(v.url, ":")
    IN  IF i > 1 /\ isalpha(v.url[1]) /\ \A k \in 1..(i - 1) : v.url[k] \in scheme_chars
        THEN [v EXCEPT !.scheme = lower(SubSeq(v.url, 1, i - 1)),
                       !.url = slice_from(v.url, i + 1)]
        ELSE v

\* _splitnetloc(url, 2): the position of the first of "/", "?", "#" after "//"
netloc_delim(u) ==
    LET hits == {i \in 3..Len(u) : u[i] \in {"/", "?", "#"}}
    IN  IF hits = {} THEN Len(u) + 1 ELSE Min(hits)

\* 'if url[:2] == "//": netloc, url = _splitnetloc(url, 2)'
split_netloc(v) ==
    IF Len(v.url) >= 2 /\ v.url[1] = "/" /\ v.url[2] = "/"
    THEN [v EXCEPT !.netloc = SubSeq(v.url, 3, netloc_delim(v.url) - 1),
                   !.url = slice_from(v.url, netloc_delim(v.url))]
    ELSE v

\* 'raise ValueError("Invalid IPv6 URL")' on an unmatched bracket
invalid_ipv6(netloc) ==
    \/ has_char(netloc, "[") /\ ~has_char(netloc, "]")
    \/ has_char(netloc, "]") /\ ~has_char(netloc, "[")

\* 'url, fragment = url.split("#", 1)'
split_fragment(v) ==
    IF has_char(v.url, "#")
    THEN [v EXCEPT !.url = SubSeq(v.url, 1, find(v.url, "#") - 1),
                   !.fragment = slice_from(v.url, find(v.url, "#") + 1)]
    ELSE v

\* 'url, query = url.split("?", 1)'
split_query(v) ==
    IF has_char(v.url, "?")
    THEN [v EXCEPT !.url = SubSeq(v.url, 1, find(v.url, "?") - 1),
                   !.query = slice_from(v.url, find(v.url, "?") + 1)]
    ELSE v

\* the ParseResult, with raised for the ValueError
parse_result(v) ==
    [raised   |-> invalid_ipv6(v.netloc),
     scheme   |-> v.scheme,
     netloc   |-> v.netloc,
     path     |-> v.url,
     query    |-> v.query,
     fragment |-> v.fragment]

urlparse(u) ==
    parse_result(split_query(split_fragment(split_netloc(split_scheme(urlsplit_start(u))))))

\* digit_groups with a range check: a group of three digits starts with 0, 1 or 2
digit_groups_in_range(groups) ==
    /\ Len(groups) = 4
    /\ \A g \in 1..4 :
          /\ Len(groups[g]) \in 1..3
          /\ \A k \in 1..Len(groups[g]) : isdigit(groups[g][k])
          /\ Len(groups[g]) = 3 => groups[g][1] \in {"0", "1", "2"}

\* re.match(r"^\d{1,3}\.\d{1,3}\.\d{1,3}\.\d{1,3}$", host): four groups of one
\* to three digits with single dots between them
digit_groups(groups) ==
    /\ Len(groups) = 4
    /\ \A g \in 1..4 :
          /\ Len(groups[g]) \in 1..3
          /\ \A k \in 1..Len(groups[g]) : isdigit(groups[g][k])

re_match_ipv4(host) == digit_groups(split(host, "."))

\* ------------------------------------------------------------------------
\* feature_extraction.py: one operator per feature function.  A function whose
\* body is wrapped in try/except returns its fallback where urlparse raises;
\* the others have no handler, and their operators give the value computed
\* when urlparse returns.

https == <<"h","t","t","p","s">>

\* (1) UrlLength
get_url_length(u) == Len(u)

\* (2) NumDots
get_num_dots(u) == count_char(u, ".")

\* subdomain_level without the floor at 0
subdomain_level_unfloored(host) ==
    IF host = <<>> THEN 0 ELSE count_char(host, ".") - 1

\* (3) SubdomainLevel
subdomain_level(host) ==
    IF host = <<>> THEN 0
    ELSE IF count_char(host, ".") > 0 THEN count_char(host, ".") - 1 ELSE 0

get_subdomain_level(u) ==
    IF urlparse(u).raised THEN 0 ELSE subdomain_level(urlparse(u).netloc)

\* (4) PathLevel
path_level(path) ==
    IF path = <<>> \/ path = <<"/">> THEN 0 ELSE count_char(path, "/")

get_path_level(u) ==
    IF urlparse(u).raised THEN 0 ELSE path_level(urlparse(u).path)

\* (5-10) NumDash, NumDashInHostname, AtSymbol, TildeSymbol, NumUnderscore, NumPercent
get_symbol_counts(u) ==
    << <<"NumDash", count_char(u, "-")>>,
       <<"NumDashInHostname", count_char(urlparse(u).netloc, "-")>>,
       <<"AtSymbol", IF has_char(u, "@") THEN 1 ELSE 0>>,
       <<"TildeSymbol", IF has_char(u, "~") THEN 1 ELSE 0>>,
       <<"NumUnderscore", count_char(u, "_")>>,
       <<"NumPercent", count_char(u, "%")>> >>

\* (11-13) NumQueryComponents, NumAmpersand, NumHash
query_and_fragment_info(parsed_url) ==
    << <<"NumQueryComponents",
         IF parsed_url.query # <<>> THEN Len(split(parsed_url.query, "&")) ELSE 0>>,
       <<"NumAmpersand", count_char(parsed_url.query, "&")>>,
       <<"NumHash", IF parsed_url.fragment # <<>> THEN 1 ELSE 0>> >>

get_query_and_fragment_info(u) == query_and_fragment_info(urlparse(u))

\* (14) NumNumericChars
get_num_numeric_chars(u) == Cardinality({i \in 1..Len(u) : isdigit(u[i])})

\* (15) NoHttps
check_https(u) == IF urlparse(u).scheme # https THEN 1 ELSE 0

\* (16) RandomString
random_segment(path_segments) ==
    \E k \in 1..Len(path_segments) :
        /\ Len(path_segments[k]) > 15
        /\ ~\E j \in 1..Len(path_segments[k]) : isdigit(path_segments[k][j])

check_random_string(u) ==
    IF random_segment(split(urlparse(u).path, "/")) THEN 1 ELSE 0

\* (17) IpAddress
check_ip_address(u) == IF re_match_ipv4(urlparse(u).netloc) THEN 1 ELSE 0

\* (18) DomainInSubdomains
domain_in_subdomains(domain_parts) ==
    IF Len(domain_parts) >= 3
    THEN (IF \E k \in 1..(Len(domain_parts) - 2) :
                 domain_parts[k] = domain_parts[Len(domain_parts) - 1]
          THEN 1 ELSE 0)
    ELSE 0

check_domain_in_subdomains(u) ==
    IF urlparse(u).raised THEN 0
    ELSE domain_in_subdomains(split(urlparse(u).netloc, "."))

\* (19) DomainInPaths
base_domain(host, domain_parts) ==
    IF Len(domain_parts) >= 2 THEN domain_parts[Len(domain_parts) - 1] ELSE host

domain_in_paths(host, path) ==
    IF contains(path, base_domain(host, split(host, "."))) THEN 1 ELSE 0

check_domain_in_paths(u) ==
    IF urlparse(u).raised THEN 0
    ELSE domain_in_paths(urlparse(u).netloc, urlparse(u).path)

\* (20) HttpsInHostname
check_https_in_hostname(u) ==
    IF contains(lower(urlparse(u).netloc), https) THEN 1 ELSE 0

\* (21) HostnameLength
get_hostname_length(u) == Len(urlparse(u).netloc)

\* (22) PathLength
get_path_length(u) == Len(urlparse(u).path)

\* (23) QueryLength
get_query_length(u) == Len(urlparse(u).query)

\* (24) DoubleSlashInPath
get_double_slash_in_path(u) ==
    IF contains(urlparse(u).path, <<"/", "/">>) THEN 1 ELSE 0

sensitive_words ==
    << <<"l","o","g","i","n">>,
       <<"v","e","r","i","f","y">>,
       <<"u","p","d","a","t","e">>,
       <<"a","c","c","o","u","n","t">>,
       <<"b","a","n","k">>,
       <<"s","e","c","u","r","e">>,
       <<"p","a","y","p","a","l">>,
       <<"a","m","a","z","o","n">>,
       <<"e","b","a","y">>,
       <<"s","i","g","n","i","n">> >>

\* (25) NumSensitiveWords
sensitive_word_count(url_lower) ==
    sum([k \in 1..Len(sensitive_words) |-> count(url_lower, sensitive_words[k])])

get_num_sensitive_words(u) == sensitive_word_count(lower(u))

common_brands ==
    << <<"p","a","y","p","a","l">>,
       <<"g","o","o","g","l","e">>,
       <<"a","m","a","z","o","n">>,
       <<"m","i","c","r","o","s","o","f","t">>,
       <<"a","p","p","l","e">> >>

\* (26) EmbeddedBrandName
embedded_brand_name(url_parts, host, url_lower) ==
    \E b \in 1..Len(common_brands) :
        /\ \E k \in 1..Len(url_parts) : url_parts[k] = common_brands[b]
        /\ ~contains(host, common_brands[b])
        /\ contains(url_lower, common_brands[b])

check_embedded_brand_name(u) ==
    IF embedded_brand_name(split_any(lower(u), {"/", ".", "-"}),
                           urlparse(u).netloc, lower(u))
    THEN 1 ELSE 0

PLACEHOLDER_VALUE == -1

\* (27-42) placeholders for the features that need the page content
get_content_based_features ==
    << <<"PctExtHyperlinks", PLACEHOLDER_VALUE>>,
       <<"PctExtResourceUrls", PLACEHOLDER_VALUE>>,
       <<"ExtFavicon", PLACEHOLDER_VALUE>>,
       <<"InsecureForms", PLACEHOLDER_VALUE>>,
       <<"RelativeFormAction", PLACEHOLDER_VALUE>>,
       <<"ExtFormAction", PLACEHOLDER_VALUE>>,
       <<"AbnormalFormAction", PLACEHOLDER_VALUE>>,
       <<"PctNullSelfRedirectHyperlinks", PLACEHOLDER_VALUE>>,
       <<"FrequentDomainNameMismatch", PLACEHOLDER_VALUE>>,
       <<"FakeLinkInStatusBar", PLACEHOLDER_VALUE>>,
       <<"RightClickDisabled", PLACEHOLDER_VALUE>>,
       <<"PopUpWindow", PLACEHOLDER_VALUE>>,
       <<"SubmitInfoToEmail", PLACEHOLDER_VALUE>>,
       <<"IframeOrFrame", PLACEHOLDER_VALUE>>,
       <<"MissingTitle", PLACEHOLDER_VALUE>>,
       <<"ImagesOnlyInForm", PLACEHOLDER_VALUE>> >>

\* (43-48) placeholders for the "real-time" features
get_realtime_features ==
    << <<"SubdomainLevelRT", PLACEHOLDER_VALUE>>,
       <<"UrlLengthRT", PLACEHOLDER_VALUE>>,
       <<"PctExtResourceUrlsRT", PLACEHOLDER_VALUE>>,
       <<"AbnormalExtFormActionR", PLACEHOLDER_VALUE>>,
       <<"ExtMetaScriptLinkRT", PLACEHOLDER_VALUE>>,
       <<"PctExtNullSelfRedirectHyperlinksRT", PLACEHOLDER_VALUE>> >>

\* A Python dict literal or a run of assignments and update calls is written as
\* the sequence of its <<key, value>> items in the order they are set; dict is
\* the mapping it leaves: every key set, each with the value set last.
dict(items) ==
    [key \in {items[i][1] : i \in 1..Len(items)} |->
        items[CHOOSE i \in 1..Len(items) :
                  /\ items[i][1] = key
                  /\ \A j \in (i + 1)..Len(items) : items[j][1] # key][2]]

\* the items extract_features_from_url sets, lines 244-274, in order
feature_items(u) ==
    << <<"UrlLength", get_url_length(u)>>,
       <<"NumDots", get_num_dots(u)>>,
       <<"SubdomainLevel", get_subdomain_level(u)>>,
       <<"PathLevel", get_path_level(u)>>,
       <<"NumNumericChars", get_num_numeric_chars(u)>>,
       <<"NoHttps", check_https(u)>>,
       <<"HostnameLength", get_hostname_length(u)>>,
       <<"PathLength", get_path_length(u)>>,
       <<"QueryLength", get_query_length(u)>>,
       <<"DoubleSlashInPath", get_double_slash_in_path(u)>> >>
    \o get_symbol_counts(u)
    \o get_query_and_fragment_info(u)
    \o << <<"RandomString", check_random_string(u)>>,
          <<"IpAddress", check_ip_address(u)>>,
          <<"DomainInSubdomains", check_domain_in_subdomains(u)>>,
          <<"DomainInPaths", check_domain_in_paths(u)>>,
          <<"HttpsInHostname", check_https_in_hostname(u)>>,
          <<"NumSensitiveWords", get_num_sensitive_words(u)>>,
          <<"EmbeddedBrandName", check_embedded_brand_name(u)>> >>
    \o get_content_based_features
    \o get_realtime_features

\* What extract_features_from_url returns: the dict, and warned for the
\* "expected 48" WARNING line it prints (which changes nothing it returns).
returned(features) ==
    [raised   |-> FALSE,
     warned   |-> Cardinality(DOMAIN features) # 48,
     features |-> features]

\* The first urlparse call with no handler around it is check_https's: where
\* urlparse raises, extract_features_from_url raises there and returns nothing.
extract_features_from_url(u) ==
    IF urlparse(u).raised
    THEN [raised |-> TRUE, warned |-> FALSE, features |-> <<>>]
    ELSE returned(dict(feature_items(u)))

\* ------------------------------------------------------------------------
\* the inputs: request URLs, feature lists a metadata file can hold, and the
\* probabilities a classifier can return

\* the empty string  (length 0)
UrlEmpty ==
    <<>>

\* https://www.google.com/search?q=test  (length 36)
UrlGoogleSearch ==
    <<"h","t","t","p","s",":","/","/","w","w","w",".","g","o","o","g","l","e",".","c","o","m",
      "/","s","e","a","r","c","h","?","q","=","t","e","s","t">>

\* http://paypal-secure-login.com@phishing.net/update/account.html  (length 63)
UrlAtSymbol ==
    <<"h","t","t","p",":","/","/","p","a","y","p","a","l","-","s","e","c","u","r","e","-","l",
      "o","g","i","n",".","c","o","m","@","p","h","i","s","h","i","n","g",".","n","e","t","/",
      "u","p","d","a","t","e","/","a","c","c","o","u","n","t",".","h","t","m","l">>

\* http://192.168.1.1/admin-login.html  (length 35)
UrlIpHost ==
    <<"h","t","t","p",":","/","/","1","9","2",".","1","6","8",".","1",".","1","/","a","d","m",
      "i","n","-","l","o","g","i","n",".","h","t","m","l">>

\* http://192.168.1.1:8080/x  (length 25)
UrlIpHostPort ==
    <<"h","t","t","p",":","/","/","1","9","2",".","1","6","8",".","1",".","1",":","8","0","8",
      "0","/","x">>

\* http://999.999.999.999  (length 22)
UrlIpOutOfRange ==
    <<"h","t","t","p",":","/","/","9","9","9",".","9","9","9",".","9","9","9",".","9","9","9">>

\* http://[/  (length 9)
UrlOpenBracket ==
    <<"h","t","t","p",":","/","/","[","/">>

\* https://www.example.org/docs/getting-started/install/linux/page-one.htmlll  (length 74)
UrlLongSafe ==
    <<"h","t","t","p","s",":","/","/","w","w","w",".","e","x","a","m","p","l","e",".","o","r",
      "g","/","d","o","c","s","/","g","e","t","t","i","n","g","-","s","t","a","r","t","e","d",
      "/","i","n","s","t","a","l","l","/","l","i","n","u","x","/","p","a","g","e","-","o","n",
      "e",".","h","t","m","l","l","l">>

\* http://10.0.0.1/files/reports/annual/summary/archive/index/of/pages/xxxxxx  (length 74)
UrlLongIp ==
    <<"h","t","t","p",":","/","/","1","0",".","0",".","0",".","1","/","f","i","l","e","s","/",
      "r","e","p","o","r","t","s","/","a","n","n","u","a","l","/","s","u","m","m","a","r","y",
      "/","a","r","c","h","i","v","e","/","i","n","d","e","x","/","o","f","/","p","a","g","e",
      "s","/","x","x","x","x","x","x">>

\* http://secure.example.org/redirect/to/user@evil.example.net/session/keep/x  (length 74)
UrlLongAt ==
    <<"h","t","t","p",":","/","/","s","e","c","u","r","e",".","e","x","a","m","p","l","e",".",
      "o","r","g","/","r","e","d","i","r","e","c","t","/","t","o","/","u","s","e","r","@","e",
      "v","i","l",".","e","x","a","m","p","l","e",".","n","e","t","/","s","e","s","s","i","o",
      "n","/","k","e","e","p","/","x">>

\* http://www.amazon-support.online/update  (length 39)
UrlAmazonSupport ==
    <<"h","t","t","p",":","/","/","w","w","w",".","a","m","a","z","o","n","-","s","u","p","p",
      "o","r","t",".","o","n","l","i","n","e","/","u","p","d","a","t","e">>

\* https://paypal-verify-account.web.app  (length 37)
UrlPaypalVerify ==
    <<"h","t","t","p","s",":","/","/","p","a","y","p","a","l","-","v","e","r","i","f","y","-",
      "a","c","c","o","u","n","t",".","w","e","b",".","a","p","p">>

\* https://github.com/microsoft/vscode  (length 35)
UrlGithub ==
    <<"h","t","t","p","s",":","/","/","g","i","t","h","u","b",".","c","o","m","/","m","i","c",
      "r","o","s","o","f","t","/","v","s","c","o","d","e">>

\* HTTPS://Login.Example.com/A//b?x=1&y=2#frag  (length 43)
UrlMixedCase ==
    <<"H","T","T","P","S",":","/","/","L","o","g","i","n",".","E","x","a","m","p","l","e",".",
      "c","o","m","/","A","/","/","b","?","x","=","1","&","y","=","2","#","f","r","a","g">>

\* www.google.com/a  (length 16)
UrlNoScheme ==
    <<"w","w","w",".","g","o","o","g","l","e",".","c","o","m","/","a">>

\* http://paypal.paypal.com/paypal/  (length 32)
UrlDomainRepeat ==
    <<"h","t","t","p",":","/","/","p","a","y","p","a","l",".","p","a","y","p","a","l",".","c",
      "o","m","/","p","a","y","p","a","l","/">>

\* http://a.io/abcdefghijklmnopq  (length 29)
UrlRandomPath ==
    <<"h","t","t","p",":","/","/","a",".","i","o","/","a","b","c","d","e","f","g","h","i","j",
      "k","l","m","n","o","p","q">>

\* http://https-x.net/~u_n/%20?a&&b  (length 32)
UrlSymbols ==
    <<"h","t","t","p",":","/","/","h","t","t","p","s","-","x",".","n","e","t","/","~","u","_",
      "n","/","%","2","0","?","a","&","&","b">>

\* http://localhost/x  (length 18)
UrlLocalhost ==
    <<"h","t","t","p",":","/","/","l","o","c","a","l","h","o","s","t","/","x">>

BaseUrls ==
    { UrlEmpty, UrlGoogleSearch, UrlAtSymbol, UrlIpHost, UrlIpHostPort, UrlIpOutOfRange, UrlOpenBracket,
      UrlLongSafe, UrlLongIp, UrlLongAt, UrlAmazonSupport, UrlPaypalVerify,
      UrlGithub, UrlMixedCase, UrlNoScheme, UrlDomainRepeat, UrlRandomPath, UrlSymbols, UrlLocalhost }

RECURSIVE Pad(_)
Pad(n) == IF n = 0 THEN <<>> ELSE <<"a">> \o Pad(n - 1)

Urls == {base \o Pad(n) : base \in BaseUrls, n \in 0..MaxPad}

\* the 48 columns of the training data, in the order of its header
DatasetColumns ==
    << "NumDots", "SubdomainLevel", "PathLevel", "UrlLength", "NumDash",
       "NumDashInHostname", "AtSymbol", "TildeSymbol", "NumUnderscore", "NumPercent",
       "NumQueryComponents", "NumAmpersand", "NumHash", "NumNumericChars", "NoHttps",
       "RandomString", "IpAddress", "DomainInSubdomains", "DomainInPaths",
       "HttpsInHostname", "HostnameLength", "PathLength", "QueryLength",
       "DoubleSlashInPath", "NumSensitiveWords", "EmbeddedBrandName", "PctExtHyperlinks",
       "PctExtResourceUrls", "ExtFavicon", "InsecureForms", "RelativeFormAction",
       "ExtFormAction", "AbnormalFormAction", "PctNullSelfRedirectHyperlinks",
       "FrequentDomainNameMismatch", "FakeLinkInStatusBar", "RightClickDisabled",
       "PopUpWindow", "SubmitInfoToEmail", "IframeOrFrame", "MissingTitle",
       "ImagesOnlyInForm", "SubdomainLevelRT", "UrlLengthRT", "PctExtResourceUrlsRT",
       "AbnormalExtFormActionR", "ExtMetaScriptLinkRT",
       "PctExtNullSelfRedirectHyperlinksRT" >>

\* a feature list that is a proper part of what the extractor produces
UrlOnlyColumns ==
    << "UrlLength", "AtSymbol", "NumDashInHostname", "NoHttps", "NumNumericChars", "IpAddress" >>

\* the feature list of train_model.py, whose names the extractor does not produce
TrainColumns ==
    << "url_length", "has_at_symbol", "has_hyphen", "is_https", "digit_count", "is_ip_address" >>

\* a feature list with one name the extractor does not produce, after names it does
MixedColumns == << "UrlLength", "is_https", "AtSymbol" >>

\* what json.load can return from the metadata file
FeatureLists == {DatasetColumns, UrlOnlyColumns, TrainColumns, MixedColumns, <<>>}

\* phishing probabilities, in 1/100000
Probabilities == {0, 50000, 57985, 57995, 57999, 58000, 58001, 60000, 100000}

ML_THRESHOLD == 58000

\* round(proba, 4): to the nearest 1/10000, a tie to the even neighbour
round4(proba) ==
    IF proba % 10 > 5 \/ (proba % 10 = 5 /\ (proba \div 10) % 2 = 1)
    THEN (proba \div 10) + 1
    ELSE proba \div 10

\* ------------------------------------------------------------------------
\* app.py

\* Python None for feature_names, and a loaded list
NoneList == [is_none |-> TRUE, names |-> <<>>]

ListOf(names) == [is_none |-> FALSE, names |-> names]

\* "not feature_names": None and the empty list are both false
falsy_list(l) == l.is_none \/ l.names = <<>>

REASON_AT == "Rule-Based (Contains '@' symbol for obfuscation)"

REASON_LONG == "Rule-Based (URL is excessively long)"

REASON_IP == "Rule-Based (Hostname is an IP address)"

REASON_ML == "ML Model Prediction"

\* rule_based_check with the length check before the "@" check
rule_based_check_length_first(u) ==
    IF Len(u) > 75
    THEN [raised |-> FALSE, is_phishing |-> TRUE, reason |-> REASON_LONG]
    ELSE IF has_char(u, "@")
    THEN [raised |-> FALSE, is_phishing |-> TRUE, reason |-> REASON_AT]
    ELSE IF urlparse(u).raised
    THEN [raised |-> TRUE, is_phishing |-> FALSE, reason |-> ""]
    ELSE IF re_match_ipv4(urlparse(u).netloc)
    THEN [raised |-> FALSE, is_phishing |-> TRUE, reason |-> REASON_IP]
    ELSE [raised |-> FALSE, is_phishing |-> FALSE, reason |-> ""]

\* rule_based_check with "len(url) >= 75"
rule_based_check_ge(u) ==
    IF has_char(u, "@")
    THEN [raised |-> FALSE, is_phishing |-> TRUE, reason |-> REASON_AT]
    ELSE IF Len(u) >= 75
    THEN [raised |-> FALSE, is_phishing |-> TRUE, reason |-> REASON_LONG]
    ELSE IF urlparse(u).raised
    THEN [raised |-> TRUE, is_phishing |-> FALSE, reason |-> ""]
    ELSE IF re_match_ipv4(urlparse(u).netloc)
    THEN [raised |-> FALSE, is_phishing |-> TRUE, reason |-> REASON_IP]
    ELSE [raised |-> FALSE, is_phishing |-> FALSE, reason |-> ""]

\* rule_based_check without its third check, the IP address in the hostname
rule_based_check_no_ip(u) ==
    IF has_char(u, "@")
    THEN [raised |-> FALSE, is_phishing |-> TRUE, reason |-> REASON_AT]
    ELSE IF Len(u) > 75
    THEN [raised |-> FALSE, is_phishing |-> TRUE, reason |-> REASON_LONG]
    ELSE IF urlparse(u).raised
    THEN [raised |-> TRUE, is_phishing |-> FALSE, reason |-> ""]
    ELSE [raised |-> FALSE, is_phishing |-> FALSE, reason |-> ""]

\* rule_based_check returns (is_phishing, reason), or raises where urlparse does
rule_based_check(u) ==
    IF has_char(u, "@")
    THEN [raised |-> FALSE, is_phishing |-> TRUE, reason |-> REASON_AT]
    ELSE IF Len(u) > 75
    THEN [raised |-> FALSE, is_phishing |-> TRUE, reason |-> REASON_LONG]
    ELSE IF urlparse(u).raised
    THEN [raised |-> TRUE, is_phishing |-> FALSE, reason |-> ""]
    ELSE IF re_match_ipv4(urlparse(u).netloc)
    THEN [raised |-> FALSE, is_phishing |-> TRUE, reason |-> REASON_IP]
    ELSE [raised |-> FALSE, is_phishing |-> FALSE, reason |-> ""]

\* apply_threshold with "phishing_proba > ML_THRESHOLD"
apply_threshold_strict(phishing_proba) ==
    IF phishing_proba > ML_THRESHOLD THEN "phishing" ELSE "safe"

\* ml_based_prediction, step 4: the label for a probability
apply_threshold(phishing_proba) ==
    IF phishing_proba >= ML_THRESHOLD THEN "phishing" ELSE "safe"

\* "[raw_features[name] for name in feature_names]": the names that raise KeyError
missing_names(features, names) == {i \in 1..Len(names) : names[i] \notin DOMAIN features}

\* build_feature_vector with the values in the order the extractor set its keys
build_feature_vector_insertion_order(features, names) ==
    [i \in 1..Len(names) |-> features[feature_items(<<>>)[i][1]]]

\* "[raw_features[name] for name in feature_names]": the value of each name of
\* the list, in the order of the list
build_feature_vector(features, names) == [i \in 1..Len(names) |-> features[names[i]]]

\* the responses of predict: the HTTP status, the keys of the JSON body and
\* their values.  phishing_proba is <<>> for null and <<p>> for the number p;
\* error is <<>> when absent, else the message and the name it quotes.
NoResponse ==
    [status |-> 0, keys |-> {}, prediction |-> "", reason |-> "",
     phishing_proba |-> <<>>, error |-> <<>>]

ErrorResponse(status, error) ==
    [status |-> status, keys |-> {"error"}, prediction |-> "", reason |-> "",
     phishing_proba |-> <<>>, error |-> error]

\* an exception no handler catches: the framework answers 500 without a JSON body
UnhandledException ==
    [status |-> 500, keys |-> {}, prediction |-> "", reason |-> "",
     phishing_proba |-> <<>>, error |-> <<>>]

VerdictResponse(prediction, reason, proba) ==
    [status |-> 200, keys |-> {"prediction", "reason", "phishing_proba"},
     prediction |-> prediction, reason |-> reason,
     phishing_proba |-> proba, error |-> <<>>]

NoFeatures == [raised |-> FALSE, warned |-> FALSE, features |-> <<>>]

VARIABLES
    entry,           \* how the module runs: "__main__" or "import" (a WSGI host)
    model,           \* "None" or "classifier"
    feature_names,   \* NoneList or ListOf(names)
    pc,              \* the position of the process and of the call it serves
    url,             \* the URL of the call being served
    calls,           \* the stages the call has run, in order
    raw_features,    \* what extract_features_from_url returned to the call
    feature_vector,  \* the values handed to the classifier
    phishing_proba,  \* the probability the classifier returned, <<>> before
    response         \* the response of predict

vars ==
    << entry, model, feature_names, pc, url, calls, raw_features, feature_vector,
       phishing_proba, response >>

locals == << url, calls, raw_features, feature_vector, phishing_proba, response >>

Init ==
    /\ entry \in {"__main__", "import"}
    /\ model = "None"
    /\ feature_names = NoneList
    /\ pc = "startup"
    /\ url = <<>>
    /\ calls = <<>>
    /\ raw_features = NoFeatures
    /\ feature_vector = <<>>
    /\ phishing_proba = <<>>
    /\ response = NoResponse

\* load_ml_resources: each load succeeds or fails on its own
load_ml_resources ==
    /\ pc = "startup"
    /\ model' \in {"None", "classifier"}
    /\ feature_names' \in {NoneList} \cup {ListOf(names) : names \in FeatureLists}
    /\ pc' = "loaded"
    /\ UNCHANGED << entry, locals >>

\* __main__: app.run() only with both resources loaded
app_run ==
    /\ entry = "__main__"
    /\ pc = "loaded"
    /\ model # "None" /\ ~falsy_list(feature_names)
    /\ pc' = "idle"
    /\ UNCHANGED << entry, model, feature_names, locals >>

\* __main__: "FATAL: Server startup failed due to missing ML resources."
startup_failed ==
    /\ entry = "__main__"
    /\ pc = "loaded"
    /\ ~(model # "None" /\ ~falsy_list(feature_names))
    /\ pc' = "exited"
    /\ UNCHANGED << entry, model, feature_names, locals >>

\* the module imported by a host that serves app, with or without a call of
\* load_ml_resources before
serve_imported ==
    /\ entry = "import"
    /\ pc \in {"startup", "loaded"}
    /\ pc' = "idle"
    /\ UNCHANGED << entry, model, feature_names, locals >>

\* predict, lines 117-125: the request is read and validated
predict_request(u, is_json) ==
    /\ pc = "idle"
    /\ IF ~is_json
       THEN /\ response' = ErrorResponse(400, <<"Missing JSON in request">>)
            /\ pc' = "respond"
            /\ url' = <<>>
       ELSE IF u = <<>>
       THEN /\ response' = ErrorResponse(400, <<"Missing 'url' field in request">>)
            /\ pc' = "respond"
            /\ url' = <<>>
       ELSE /\ response' = NoResponse
            /\ pc' = "rule_check"
            /\ url' = u
    /\ UNCHANGED << entry, model, feature_names, calls, raw_features, feature_vector,
                    phishing_proba >>

\* rule_outcome without the return of line 137: the call goes on to step 2
rule_outcome_no_return(r) ==
    IF r.raised
    THEN response' = UnhandledException /\ pc' = "respond"
    ELSE IF r.is_phishing
    THEN response' = VerdictResponse("phishing", r.reason, <<>>) /\ pc' = "ml"
    ELSE response' = NoResponse /\ pc' = "ml"

\* predict, lines 130-140, with r the result of rule_based_check
rule_outcome(r) ==
    IF r.raised
    THEN response' = UnhandledException /\ pc' = "respond"
    ELSE IF r.is_phishing
    THEN response' = VerdictResponse("phishing", r.reason, <<>>) /\ pc' = "respond"
    ELSE response' = NoResponse /\ pc' = "ml"

\* predict, lines 127-137: step 1, the rule-based check
predict_rule_check ==
    /\ pc = "rule_check"
    /\ calls' = Append(calls, "rule_based_check")
    /\ rule_outcome(rule_based_check(url))
    /\ UNCHANGED << entry, model, feature_names, url, raw_features, feature_vector,
                    phishing_proba >>

\* ml_based_prediction, lines 84-97, with got the result of the extraction
ml_feature_vector(got, names) ==
    /\ calls' = Append(calls, "extract_features_from_url")
    /\ raw_features' = got
    /\ IF got.raised
       THEN /\ response' = UnhandledException
            /\ pc' = "respond"
            /\ UNCHANGED feature_vector
       ELSE IF missing_names(got.features, names) # {}
       THEN /\ response' = ErrorResponse(500,
                    <<"Missing feature required by model: ",
                      names[Min(missing_names(got.features, names))]>>)
            /\ pc' = "respond"
            /\ UNCHANGED feature_vector
       ELSE /\ feature_vector' = build_feature_vector(got.features, names)
            /\ response' = NoResponse
            /\ pc' = "predict_proba"

\* ml_extract with the guard "not model and not feature_names"
ml_extract_and_guard ==
    /\ pc = "ml"
    /\ IF model = "None" /\ falsy_list(feature_names)
       THEN /\ response' = ErrorResponse(500, <<"ML model or feature metadata not loaded.">>)
            /\ pc' = "respond"
            /\ UNCHANGED << calls, raw_features, feature_vector >>
       ELSE ml_feature_vector(extract_features_from_url(url), feature_names.names)
    /\ UNCHANGED << entry, model, feature_names, url, phishing_proba >>

\* ml_based_prediction, lines 79-97: the guard, the extraction and the vector
ml_extract ==
    /\ pc = "ml"
    /\ IF model = "None" \/ falsy_list(feature_names)
       THEN /\ response' = ErrorResponse(500, <<"ML model or feature metadata not loaded.">>)
            /\ pc' = "respond"
            /\ UNCHANGED << calls, raw_features, feature_vector >>
       ELSE ml_feature_vector(extract_features_from_url(url), feature_names.names)
    /\ UNCHANGED << entry, model, feature_names, url, phishing_proba >>

\* ml_based_prediction, lines 99-109, and predict, lines 142-151: the classifier
\* returns p, the threshold gives the label, the response is built
ml_predict_proba(p) ==
    /\ pc = "predict_proba"
    /\ calls' = Append(calls, "predict_proba")
    /\ phishing_proba' = <<p>>
    /\ response' = VerdictResponse(apply_threshold(p), REASON_ML, <<round4(p)>>)
    /\ pc' = "respond"
    /\ UNCHANGED << entry, model, feature_names, url, raw_features, feature_vector >>

\* extract_features_from_url called on its own, as in the module's example usage
extract_call(u) ==
    /\ pc = "idle"
    /\ url' = u
    /\ raw_features' = extract_features_from_url(u)
    /\ pc' = "extracted"
    /\ UNCHANGED << entry, model, feature_names, calls, feature_vector, phishing_proba,
                    response >>

\* the call returns; its locals are gone
return ==
    /\ pc \in {"respond", "extracted"}
    /\ pc' = "idle"
    /\ url' = <<>>
    /\ calls' = <<>>
    /\ raw_features' = NoFeatures
    /\ feature_vector' = <<>>
    /\ phishing_proba' = <<>>
    /\ response' = NoResponse
    /\ UNCHANGED << entry, model, feature_names >>

Next ==
    \/ load_ml_resources
    \/ app_run
    \/ startup_failed
    \/ serve_imported
    \/ \E u \in Urls, is_json \in BOOLEAN : predict_request(u, is_json)
    \/ predict_rule_check
    \/ ml_extract
    \/ \E p \in Probabilities : ml_predict_proba(p)
    \/ \E u \in Urls : extract_call(u)
    \/ return

Spec == Init /\ [][Next]_vars

\* ------------------------------------------------------------------------
\* Concurrent calls.  The development server of app.run serves each request in
\* a thread of its own, and so does a threaded host of the imported module.
\* In SpecConcurrent the process has finished its startup and is serving; the
\* variables of a call (pc, url, calls, raw_features, feature_vector,
\* phishing_proba, response) are functions of the caller, one value for each
\* thread, and model and feature_names are the module's globals, as before.
\* A call takes one step at a time, and the steps of different calls interleave.

\* bound of the model: the number of calls in flight at once
MaxCallers == 2

Callers == 1..MaxCallers

\* https://www.google.com/search?q=test&ie=UTF-8  (length 45)
UrlGoogleSearchUtf8 ==
    UrlGoogleSearch \o <<"&","i","e","=","U","T","F","-","8">>

\* the request URLs of the concurrent calls
ConcurrentUrls ==
    { UrlEmpty, UrlGoogleSearch, UrlGoogleSearchUtf8, UrlAmazonSupport, UrlAtSymbol,
      UrlOpenBracket }

\* the feature lists the metadata file holds in SpecConcurrent
ConcurrentFeatureLists == {DatasetColumns, UrlOnlyColumns, MixedColumns}

\* Two fitted classifiers.  A fitted RandomForestClassifier(random_state=42)
\* with the default n_jobs averages its trees one after another: its
\* predict_proba is a fixed function of the row it is given.
Classifiers == {"classifier", "classifier_retrained"}

forest_outputs == <<50000, 57999, 58000, 60000, 0, 100000, 57995>>

\* model.predict_proba(X_predict)[0][1]
predict_proba(m, X_predict) ==
    forest_outputs[((sum(X_predict) + (IF m = "classifier" THEN 0 ELSE 3))
                        % Len(forest_outputs)) + 1]

\* what extract_features_from_url returned, with its dict written out item by
\* item (f @@ <<>> is f)
evaluated(got) ==
    [raised |-> got.raised, warned |-> got.warned, features |-> got.features @@ <<>>]

\* rule_based_check and extract_features_from_url on each request URL of the
\* concurrent calls, as tables that are computed once
rule_checked == [u \in ConcurrentUrls |-> rule_based_check(u)] @@ <<>>

extracted == [u \in ConcurrentUrls |-> evaluated(extract_features_from_url(u))] @@ <<>>

\* the features of a call kept in one module-level dict shared by all calls
stored_features_shared(all, t, got) == [c \in DOMAIN all |-> got]

\* "raw_features = extract_features_from_url(url)" and "features = {}": the
\* dict is a local of the call t
stored_features(all, t, got) == [all EXCEPT ![t] = got]

\* predict, lines 130-140: the response and the next position after the rule
\* check returned r
rule_response(r) ==
    IF r.raised THEN UnhandledException
    ELSE IF r.is_phishing THEN VerdictResponse("phishing", r.reason, <<>>)
    ELSE NoResponse

rule_next(r) == IF ~r.raised /\ ~r.is_phishing THEN "ml" ELSE "respond"

\* ml_based_prediction, lines 88-97: the KeyError response for the first name
\* of the list that the extraction did not return
missing_feature_response(features, names) ==
    ErrorResponse(500, <<"Missing feature required by model: ",
                         names[Min(missing_names(features, names))]>>)

\* the state in which the server serves: app.run needs both resources, a host
\* that imports the module serves with whatever was loaded
InitConcurrent ==
    /\ entry \in {"__main__", "import"}
    /\ model \in {"None"} \cup Classifiers
    /\ feature_names \in {NoneList} \cup {ListOf(names) : names \in ConcurrentFeatureLists}
    /\ entry = "__main__" => model # "None" /\ ~falsy_list(feature_names)
    /\ pc = [t \in Callers |-> "idle"]
    /\ url = [t \in Callers |-> <<>>]
    /\ calls = [t \in Callers |-> <<>>]
    /\ raw_features = [t \in Callers |-> NoFeatures]
    /\ feature_vector = [t \in Callers |-> <<>>]
    /\ phishing_proba = [t \in Callers |-> <<>>]
    /\ response = [t \in Callers |-> NoResponse]

\* predict, lines 117-125, in the call t
call_predict_request(t, u, is_json) ==
    /\ pc[t] = "idle"
    /\ IF ~is_json
       THEN /\ response' = [response EXCEPT ![t] = ErrorResponse(400, <<"Missing JSON in request">>)]
            /\ pc' = [pc EXCEPT ![t] = "respond"]
            /\ UNCHANGED url
       ELSE IF u = <<>>
       THEN /\ response' = [response EXCEPT ![t] =
                                ErrorResponse(400, <<"Missing 'url' field in request">>)]
            /\ pc' = [pc EXCEPT ![t] = "respond"]
            /\ UNCHANGED url
       ELSE /\ UNCHANGED response
            /\ pc' = [pc EXCEPT ![t] = "rule_check"]
            /\ url' = [url EXCEPT ![t] = u]
    /\ UNCHANGED << entry, model, feature_names, calls, raw_features, feature_vector,
                    phishing_proba >>

\* predict, lines 127-137, in the call t
call_rule_check(t) ==
    /\ pc[t] = "rule_check"
    /\ calls' = [calls EXCEPT ![t] = Append(@, "rule_based_check")]
    /\ response' = [response EXCEPT ![t] = rule_response(rule_checked[url[t]])]
    /\ pc' = [pc EXCEPT ![t] = rule_next(rule_checked[url[t]])]
    /\ UNCHANGED << entry, model, feature_names, url, raw_features, feature_vector,
                    phishing_proba >>

\* ml_based_prediction, lines 79-84, in the call t: the guard reads the globals,
\* then the extraction runs
call_ml_extract(t) ==
    /\ pc[t] = "ml"
    /\ IF model = "None" \/ falsy_list(feature_names)
       THEN /\ response' = [response EXCEPT ![t] =
                                ErrorResponse(500, <<"ML model or feature metadata not loaded.">>)]
            /\ pc' = [pc EXCEPT ![t] = "respond"]
            /\ UNCHANGED << calls, raw_features >>
       ELSE /\ calls' = [calls EXCEPT ![t] = Append(@, "extract_features_from_url")]
            /\ raw_features' = stored_features(raw_features, t, extracted[url[t]])
            /\ IF extracted[url[t]].raised
               THEN /\ response' = [response EXCEPT ![t] = UnhandledException]
                    /\ pc' = [pc EXCEPT ![t] = "respond"]
               ELSE /\ UNCHANGED response
                    /\ pc' = [pc EXCEPT ![t] = "vector"]
    /\ UNCHANGED << entry, model, feature_names, url, feature_vector, phishing_proba >>

\* ml_based_prediction, lines 86-97, in the call t: the vector is built from
\* raw_features and the global feature_names
call_ml_feature_vector(t) ==
    /\ pc[t] = "vector"
    /\ IF missing_names(raw_features[t].features, feature_names.names) # {}
       THEN /\ response' = [response EXCEPT ![t] =
                    missing_feature_response(raw_features[t].features, feature_names.names)]
            /\ pc' = [pc EXCEPT ![t] = "respond"]
            /\ UNCHANGED feature_vector
       ELSE /\ feature_vector' = [feature_vector EXCEPT ![t] =
                    build_feature_vector(raw_features[t].features, feature_names.names)]
            /\ pc' = [pc EXCEPT ![t] = "predict_proba"]
            /\ UNCHANGED response
    /\ UNCHANGED << entry, model, feature_names, url, calls, raw_features, phishing_proba >>

\* ml_based_prediction, lines 99-109, and predict, lines 142-151, in the call t
call_ml_predict_proba(t) ==
    /\ pc[t] = "predict_proba"
    /\ calls' = [calls EXCEPT ![t] = Append(@, "predict_proba")]
    /\ phishing_proba' = [phishing_proba EXCEPT ![t] = <<predict_proba(model, feature_vector[t])>>]
    /\ response' = [response EXCEPT ![t] =
            VerdictResponse(apply_threshold(predict_proba(model, feature_vector[t])),
                            REASON_ML,
                            <<round4(predict_proba(model, feature_vector[t]))>>)]
    /\ pc' = [pc EXCEPT ![t] = "respond"]
    /\ UNCHANGED << entry, model, feature_names, url, raw_features, feature_vector >>

\* extract_features_from_url called on its own by the caller t
call_extract(t, u) ==
    /\ pc[t] = "idle"
    /\ url' = [url EXCEPT ![t] = u]
    /\ raw_features' = stored_features(raw_features, t, extracted[u])
    /\ pc' = [pc EXCEPT ![t] = "extracted"]
    /\ UNCHANGED << entry, model, feature_names, calls, feature_vector, phishing_proba,
                    response >>

\* the call t returns; its locals are gone
call_return(t) ==
    /\ pc[t] \in {"respond", "extracted"}
    /\ pc' = [pc EXCEPT ![t] = "idle"]
    /\ url' = [url EXCEPT ![t] = <<>>]
    /\ calls' = [calls EXCEPT ![t] = <<>>]
    /\ raw_features' = [raw_features EXCEPT ![t] = NoFeatures]
    /\ feature_vector' = [feature_vector EXCEPT ![t] = <<>>]
    /\ phishing_proba' = [phishing_proba EXCEPT ![t] = <<>>]
    /\ response' = [response EXCEPT ![t] = NoResponse]
    /\ UNCHANGED << entry, model, feature_names >>

NextConcurrent ==
    \/ \E t \in Callers, u \in ConcurrentUrls, is_json \in BOOLEAN : call_predict_request(t, u, is_json)
    \/ \E t \in Callers : call_rule_check(t)
    \/ \E t \in Callers : call_ml_extract(t)
    \/ \E t \in Callers : call_ml_feature_vector(t)
    \/ \E t \in Callers : call_ml_predict_proba(t)
    \/ \E t \in Callers, u \in ConcurrentUrls : call_extract(t, u)
    \/ \E t \in Callers : call_return(t)

SpecConcurrent == InitConcurrent /\ [][NextConcurrent]_vars

\* ------------------------------------------------------------------------
\* properties

\* a predict call that passed validation and has run its rule check
Classifying == calls # <<>>

\* C1: in every classification call the rule check is the first stage run, before
\* the extraction and the classifier; once a rule has fired the call has run no
\* other stage and is returning the rule-based verdict.
C1_RulesBeforeModel ==
    /\ \A i \in 1..Len(calls) :
          calls[i] \in {"extract_features_from_url", "predict_proba"}
              => i > 1 /\ calls[1] = "rule_based_check"
    /\ pc \in {"ml", "predict_proba"} => calls[1] = "rule_based_check"
    /\ Classifying /\ rule_based_check(url).is_phishing
          => /\ calls = <<"rule_based_check">>
             /\ pc = "respond"
             /\ raw_features = NoFeatures
             /\ phishing_proba = <<>>
             /\ response.prediction = "phishing"
             /\ response.reason = rule_based_check(url).reason

\* a call on which a rule fired is returning, with the model loaded
C1_Witness ==
    /\ pc = "respond"
    /\ model = "classifier" /\ ~falsy_list(feature_names)
    /\ rule_based_check(url).is_phishing
    /\ calls = <<"rule_based_check">>

\* C2: a URL that contains "@" gets the verdict "phishing" with the "@" reason
\* and a null probability, and never reaches the extraction or the classifier.
C2_AtSymbolIsPhishing ==
    Classifying /\ (\E i \in 1..Len(url) : url[i] = "@")
        => /\ pc = "respond"
           /\ calls = <<"rule_based_check">>
           /\ response = VerdictResponse("phishing", REASON_AT, <<>>)

\* a URL with "@" that is also longer than 75 is answered with no model loaded
C2_Witness ==
    /\ pc = "respond"
    /\ (\E i \in 1..Len(url) : url[i] = "@")
    /\ Len(url) > 75
    /\ model = "None"
    /\ response.reason = REASON_AT

\* C3: a URL without "@" and longer than 75 characters gets "phishing" with the
\* length reason, whatever its host; a URL of 75 characters or fewer never gets
\* the length reason.
C3_LengthRule ==
    /\ Classifying /\ Len(url) > 75 /\ ~(\E i \in 1..Len(url) : url[i] = "@")
          => /\ pc = "respond"
             /\ response = VerdictResponse("phishing", REASON_LONG, <<>>)
    /\ Len(url) <= 75 => response.reason # REASON_LONG

\* a URL of 76 characters with an IP-address host is answered by the length rule
C3_Witness ==
    /\ pc = "respond"
    /\ url = UrlLongIp \o <<"a", "a">>
    /\ Len(url) = 76
    /\ response.reason = REASON_LONG

\* host is three dots at d1 < d2 < d3 with one to three characters before,
\* between and after them, every character that is not one of these dots a digit
FourDigitGroups(host) ==
    \E d1, d2, d3 \in 1..Len(host) :
        /\ d1 \in 2..4
        /\ d2 - d1 \in 2..4
        /\ d3 - d2 \in 2..4
        /\ Len(host) - d3 \in 1..3
        /\ \A i \in 1..Len(host) :
              IF i \in {d1, d2, d3} THEN host[i] = "." ELSE host[i] \in digits

\* C4: a URL without "@", of at most 75 characters, whose host (the netloc the
\* code takes from urlparse) is four dot-separated groups of one to three digits
\* gets "phishing" with the IP-address reason; the groups are not range-checked.
C4_IpHostRule ==
    /\ Classifying
    /\ ~(\E i \in 1..Len(url) : url[i] = "@")
    /\ Len(url) <= 75
    /\ FourDigitGroups(urlparse(url).netloc)
    => /\ pc = "respond"
       /\ response = VerdictResponse("phishing", REASON_IP, <<>>)

\* http://999.999.999.999 is answered by the IP rule
C4_Witness ==
    /\ pc = "respond"
    /\ url = UrlIpOutOfRange
    /\ response.reason = REASON_IP

\* the authority without a trailing ":port" (a colon followed by digits only)
RECURSIVE StripPort(_)
StripPort(authority) ==
    IF authority = <<>> THEN <<>>
    ELSE IF authority[Len(authority)] = ":" THEN SubSeq(authority, 1, Len(authority) - 1)
    ELSE IF authority[Len(authority)] \in digits
    THEN (IF \E i \in 1..Len(authority) :
                /\ authority[i] = ":"
                /\ \A j \in (i + 1)..Len(authority) : authority[j] \in digits
          THEN StripPort(SubSeq(authority, 1, Len(authority) - 1))
          ELSE authority)
    ELSE authority

\* C5: the host the heuristics see has its port stripped: a URL without "@", of
\* at most 75 characters, whose authority is a dotted quad followed by ":port"
\* is answered by the IP rule, and its IpAddress feature is 1.
C5_PortStripped ==
    /\ Classifying
          /\ ~(\E i \in 1..Len(url) : url[i] = "@")
          /\ Len(url) <= 75
          /\ FourDigitGroups(StripPort(urlparse(url).netloc))
          => pc = "respond" /\ response.reason = REASON_IP
    /\ pc = "extracted"
          /\ ~raw_features.raised
          /\ FourDigitGroups(StripPort(urlparse(url).netloc))
          => raw_features.features["IpAddress"] = 1

\* C6: a call the classifier scored gets "phishing" exactly when the probability
\* is at least the threshold and "safe" otherwise, with the model-prediction
\* reason and the rounded probability; with no rule fired, the model and the
\* feature list loaded and every listed name extracted, the call is scored.
C6_Threshold ==
    /\ phishing_proba # <<>>
          => /\ pc = "respond"
             /\ response.status = 200
             /\ response.prediction
                  = (IF phishing_proba[1] >= ML_THRESHOLD THEN "phishing" ELSE "safe")
             /\ response.reason = REASON_ML
             /\ response.phishing_proba = <<round4(phishing_proba[1])>>
    /\ pc = "respond" /\ Classifying
          /\ ~rule_based_check(url).is_phishing /\ ~rule_based_check(url).raised
          /\ model = "classifier" /\ ~feature_names.is_none /\ feature_names.names # <<>>
          /\ (\A i \in 1..Len(feature_names.names) :
                 feature_names.names[i] \in Range(DatasetColumns))
          => phishing_proba # <<>>

\* a probability equal to the threshold gives "phishing"
C6_Witness ==
    /\ pc = "respond"
    /\ phishing_proba = <<ML_THRESHOLD>>
    /\ response.prediction = "phishing"

\* the classifier failed to load, or the feature list is absent (None or empty)
Unavailable == model = "None" \/ feature_names.is_none \/ feature_names.names = <<>>

\* an explicit error: status 500, no label and no probability in the body
ErrorOutcome ==
    /\ response.status = 500
    /\ "prediction" \notin response.keys
    /\ "phishing_proba" \notin response.keys

\* C7 as stated: with the classifier or the feature list unavailable, every
\* classification call yields an error outcome with no label and no probability.
C7_UnavailableIsError ==
    Classifying /\ pc = "respond" /\ Unavailable => ErrorOutcome

\* C7 as amended: with the classifier or the feature list unavailable, no call
\* is scored and no call is answered "safe"; a call on which no rule fires
\* yields an error outcome with no label and no probability, and a call on which
\* a rule fires gets the rule-based "phishing" verdict with a null probability.
C7_UnavailableNeverSafe ==
    Unavailable
        => /\ pc # "predict_proba"
           /\ phishing_proba = <<>>
           /\ response.prediction # "safe"
           /\ Classifying /\ pc = "respond" /\ ~rule_based_check(url).is_phishing
                 => ErrorOutcome
           /\ Classifying /\ pc = "respond" /\ rule_based_check(url).is_phishing
                 => response = VerdictResponse("phishing", rule_based_check(url).reason, <<>>)

\* with no classifier loaded, a call on which no rule fired is answered with
\* the "not loaded" error
C7_Witness ==
    /\ pc = "respond"
    /\ model = "None"
    /\ calls = <<"rule_based_check">>
    /\ response = ErrorResponse(500, <<"ML model or feature metadata not loaded.">>)

\* C8: a call whose extracted key set differs from the feature list, by a
\* missing name or by an extra key, is halted with an error and never scored.
C8_KeySetEqualsSchema ==
    /\ Classifying
    /\ ~raw_features.raised
    /\ DOMAIN raw_features.features # {}
    /\ DOMAIN raw_features.features # Range(feature_names.names)
    => /\ pc = "respond"
       /\ ErrorOutcome
       /\ phishing_proba = <<>>

PlaceholderNames ==
    { "PctExtHyperlinks", "PctExtResourceUrls", "ExtFavicon", "InsecureForms",
      "RelativeFormAction", "ExtFormAction", "AbnormalFormAction",
      "PctNullSelfRedirectHyperlinks", "FrequentDomainNameMismatch",
      "FakeLinkInStatusBar", "RightClickDisabled", "PopUpWindow", "SubmitInfoToEmail",
      "IframeOrFrame", "MissingTitle", "ImagesOnlyInForm", "SubdomainLevelRT",
      "UrlLengthRT", "PctExtResourceUrlsRT", "AbnormalExtFormActionR",
      "ExtMetaScriptLinkRT", "PctExtNullSelfRedirectHyperlinksRT" }

\* C9: in every feature vector the extraction returns, the 22 placeholder
\* features are all there and equal -1, and every other feature is >= 0.
C9_PlaceholderSentinel ==
    ~raw_features.raised /\ DOMAIN raw_features.features # {}
        => /\ Cardinality(PlaceholderNames) = 22
           /\ PlaceholderNames \subseteq DOMAIN raw_features.features
           /\ \A name \in DOMAIN raw_features.features :
                 IF name \in PlaceholderNames
                 THEN raw_features.features[name] = -1
                 ELSE raw_features.features[name] >= 0

\* the vector of http://localhost/x: a host without a dot has SubdomainLevel 0
C9_Witness ==
    /\ pc = "extracted"
    /\ url = UrlLocalhost
    /\ ~raw_features.raised
    /\ raw_features.features["SubdomainLevel"] = 0
    /\ raw_features.features["HostnameLength"] = 9
    /\ raw_features.features["ExtFavicon"] = -1

\* C10: extract_features_from_url never raises: every call of it returns a
\* complete feature vector, one value for each of the 48 names.
C10_ExtractionTotal ==
    pc = "extracted"
        => /\ ~raw_features.raised
           /\ DOMAIN raw_features.features = Range(DatasetColumns)

\* the call has built the vector it hands to the classifier
VectorBuilt == pc = "predict_proba" \/ (\E k \in 1..Len(calls) : calls[k] = "predict_proba")

\* the keys of the extractor in the order it sets them, each key once
InsertionOrder == [k \in 1..Len(feature_items(<<>>)) |-> feature_items(<<>>)[k][1]]

\* C12: the sequence handed to the classifier has one value for each name of
\* the feature list, and its i-th value is the value the extraction returned
\* for the i-th name of the list, whatever the order the extractor set its keys.
C12_SchemaOrder ==
    VectorBuilt
        => /\ Len(feature_vector) = Len(feature_names.names)
           /\ \A i \in 1..Len(feature_vector) :
                 /\ feature_names.names[i] \in DOMAIN raw_features.features
                 /\ feature_vector[i] = raw_features.features[feature_names.names[i]]

\* the vector of https://www.google.com/search?q=test under the 48-column list:
\* NumDots first and UrlLength fourth, where the extractor set UrlLength first
C12_Witness ==
    /\ pc = "predict_proba"
    /\ url = UrlGoogleSearch
    /\ feature_names.names = DatasetColumns
    /\ InsertionOrder[1] = "UrlLength" /\ InsertionOrder[2] = "NumDots"
    /\ feature_vector[1] = 2
    /\ feature_vector[4] = 36
    /\ feature_vector[15] = 0
    /\ feature_vector[48] = -1

\* the names of the features that restate the three rules
RuleFeatures == {"AtSymbol", "UrlLength", "IpAddress"}

\* the value of a rule feature when no rule has evidence: no "@", a length of 75
\* at most, a host that is not four digit groups
NoRuleEvidence(name, value) ==
    IF name = "UrlLength" THEN value <= 75 ELSE value = 0

\* C13: every feature vector that reaches the classifier comes from a URL on
\* which no rule fired, and the extraction agrees with the rules on it:
\* AtSymbol = 0, UrlLength <= 75 and IpAddress = 0, in what the extraction
\* returned and at every position of the vector that holds one of the three.
C13_NoConflictingEvidence ==
    VectorBuilt
        => /\ ~rule_based_check(url).raised
           /\ ~rule_based_check(url).is_phishing
           /\ RuleFeatures \subseteq DOMAIN raw_features.features
           /\ \A name \in RuleFeatures :
                 NoRuleEvidence(name, raw_features.features[name])
           /\ \A i \in 1..Len(feature_vector) :
                 feature_names.names[i] \in RuleFeatures
                     => NoRuleEvidence(feature_names.names[i], feature_vector[i])

\* a URL of exactly 75 characters reaches the classifier under the six-name
\* list: UrlLength 75, AtSymbol 0, IpAddress 0
C13_Witness ==
    /\ pc = "predict_proba"
    /\ Len(url) = 75
    /\ feature_names.names = UrlOnlyColumns
    /\ feature_vector[1] = 75
    /\ feature_vector[2] = 0
    /\ feature_vector[6] = 0

\* what ml_based_prediction and predict make of the extraction got under the
\* classifier m and the feature list names, run on their own
SequentialModelResponse(got, m, names) ==
    IF got.raised THEN UnhandledException
    ELSE IF missing_names(got.features, names) # {}
    THEN missing_feature_response(got.features, names)
    ELSE VerdictResponse(
             apply_threshold(predict_proba(m, build_feature_vector(got.features, names))),
             REASON_ML,
             <<round4(predict_proba(m, build_feature_vector(got.features, names)))>>)

\* the response of predict to the URL u when no other call is running: a
\* function of u, the loaded model, the loaded feature list and the threshold
SequentialResponse(u) ==
    IF rule_checked[u].raised \/ rule_checked[u].is_phishing
    THEN rule_response(rule_checked[u])
    ELSE IF model = "None" \/ falsy_list(feature_names)
    THEN ErrorResponse(500, <<"ML model or feature metadata not loaded.">>)
    ELSE SequentialModelResponse(extracted[u], model, feature_names.names)

\* what the call t holds is what a call on its URL holds when it runs alone
OwnResult(t) ==
    /\ pc[t] \in {"extracted", "vector"} => raw_features[t] = extracted[url[t]]
    /\ pc[t] = "predict_proba"
          => /\ raw_features[t] = extracted[url[t]]
             /\ feature_vector[t] =
                    build_feature_vector(extracted[url[t]].features, feature_names.names)
    /\ pc[t] = "respond" /\ calls[t] # <<>> => response[t] = SequentialResponse(url[t])

\* two calls at the same position on the same URL hold the same results (a
\* request refused with status 400 has no URL and is no such call)
SameResult(t1, t2) ==
    /\ pc[t1] = pc[t2]
    /\ pc[t1] \in {"extracted", "vector", "predict_proba", "respond"}
    /\ pc[t1] = "respond" => calls[t1] # <<>> /\ calls[t2] # <<>>
    /\ url[t1] = url[t2]
    => /\ raw_features[t1] = raw_features[t2]
       /\ feature_vector[t1] = feature_vector[t2]
       /\ phishing_proba[t1] = phishing_proba[t2]
       /\ response[t1] = response[t2]

Independent ==
    /\ \A t \in Callers : OwnResult(t)
    /\ \A t1, t2 \in Callers : SameResult(t1, t2)

\* C11: under every interleaving of the steps of concurrent calls, each call
\* holds and returns what a call on its URL returns when it runs alone under
\* the loaded model, feature list and threshold, two calls on the same URL
\* hold the same features, vector and response, and no step of a call changes
\* the module's model or feature_names.
C11_CallsIndependent ==
    /\ []Independent
    /\ [][model' = model /\ feature_names' = feature_names]_vars

\* two calls on https://www.google.com/search?q=test are answered by the
\* retrained classifier at the same time, with the same vector and verdict
C11_Witness ==
    /\ MaxCallers >= 2
    /\ model = "classifier_retrained"
    /\ feature_names.names = DatasetColumns
    /\ pc[1] = "respond" /\ pc[2] = "respond"
    /\ url[1] = UrlGoogleSearch /\ url[2] = UrlGoogleSearch
    /\ response[1].reason = REASON_ML
    /\ feature_vector[1] # <<>>
    /\ feature_vector[1] = feature_vector[2]
    /\ response[1] = response[2]

====
